---- MODULE Spec2Model ----
(***************************************************************************)
(* The tool bridge of the customer-service multi-agent demo: the record    *)
(* store (customers, tickets), the operation registry MCPServer and its    *)
(* five tools, the seeding step init_db, the HTTP endpoints POST /call and  *)
(* GET /tools, and the tool client the agents call, as a state machine.    *)
(* Spec serves well-formed requests; BridgeSpec adds requests that make an *)
(* operation raise and bodies that cannot be dispatched; ClientSpec drives *)
(* the bridge through the tool client under every transport outcome;       *)
(* SeedSpec restarts the server between requests; RouterSpec runs the      *)
(* router's pipeline; ConcurrentSpec serves requests at the same time on   *)
(* the server's one event loop, the handlers taken statement by statement.  *)
(*                                                                         *)
(* Representation.                                                         *)
(*   - A JSON value carried in update_customer's data mapping is a tagged   *)
(*     record [t, v]: t is the JSON/Python type ("text", "int", "null",    *)
(*     "list"), v the value's text form.  The TEXT columns of the          *)
(*     customers table hold such values as the store returns them.         *)
(*   - A timestamp is the reading of the wall clock, an integer.  The code *)
(*     stores datetime.now(UTC).isoformat(); for UTC datetimes the iso     *)
(*     text orders as the instants do.  Every reading is later than the    *)
(*     one before: two readings are always separated by a committed store  *)
(*     transaction and the clock has microsecond resolution.               *)
(*   - A Python string that the code transforms character by character     *)
(*     (priority) is a sequence of one-character strings.                  *)
(*   - A handler is an operator from the store (db) and its arguments to   *)
(*     [db, ret]: the store it leaves and what it returns or raises.       *)
(*   - A Python str an operation inspects (priority) or a dict (data,      *)
(*     params, a request body) is a sequence or a function; a value of any *)
(*     other type in its place is a tagged record.                         *)
(*   - Text produced for the agent (the tool client's return value) is a   *)
(*     string.                                                             *)
(***************************************************************************)
EXTENDS Integers, Sequences, FiniteSets, TLC

VARIABLES
    customers,  \* the customers table: a set of rows
    tickets,    \* the tickets table: the sequence of rows in rowid order
    clock,      \* the last reading of the wall clock
    call,       \* the last request served: [tool, params]
    result,     \* the envelope returned for it
    status_code, \* the HTTP status it was delivered with
    handles,    \* store connections opened by db_conn() and not closed
    client,     \* the last tool client call: [fn, args, outcome, sent, request, ret]
    router,     \* the router's invocations: [pc, i, message, events] each
    requests,   \* the POST /call requests in progress: [pc, tool, params, now,
                \* ticket_id, ret, status_code] each
    running     \* the request whose coroutine holds the event loop, or 0

vars == <<customers, tickets, clock, call, result, status_code, handles, client, router,
          requests, running>>

-----------------------------------------------------------------------------
(* Bounds of the model *)

\* Wall-clock readings taken (the seed step's included).
MaxClock == 3

\* Keys in one data mapping passed to update_customer.
MaxDataKeys == 2

\* Store connections left open.
MaxHandles == 2

-----------------------------------------------------------------------------
(* Values *)

Text(s) == [t |-> "text", v |-> s]
Number(s) == [t |-> "int", v |-> s]
Null == [t |-> "null", v |-> ""]
List(s) == [t |-> "list", v |-> s]

\* A value that stands where the code expects a str or a dict but is neither
\* (no str the model passes has two characters).
IsTagged(val) == DOMAIN val = {"t", "v"}

\* type(val).__name__
TypeName(val) ==
    CASE val.t = "text" -> "str"
      [] val.t = "int" -> "int"
      [] val.t = "null" -> "NoneType"
      [] val.t = "list" -> "list"

\* {}
NoParams == [p \in {} |-> Null]

\* sqlite3 binds str, int, float, None, bytes; any other type raises
\* ProgrammingError at execute.
Bindable(val) == val.t \in {"text", "int", "null"}

\* A value stored in a column declared TEXT: numeric data is converted to its
\* text form, text and NULL are stored as they are.
StoreText(val) == IF val.t = "int" THEN Text(val.v) ELSE val

\* str.lower() on the ASCII letters.
UpperCase == <<"A","B","C","D","E","F","G","H","I","J","K","L","M",
               "N","O","P","Q","R","S","T","U","V","W","X","Y","Z">>
LowerCase == <<"a","b","c","d","e","f","g","h","i","j","k","l","m",
               "n","o","p","q","r","s","t","u","v","w","x","y","z">>

LowerChar(c) ==
    IF \E i \in DOMAIN UpperCase : UpperCase[i] = c
    THEN LowerCase[CHOOSE i \in DOMAIN UpperCase : UpperCase[i] = c]
    ELSE c

RECURSIVE Join(_)
Join(cs) == IF cs = <<>> THEN "" ELSE Head(cs) \o Join(Tail(cs))

lower(cs) == Join([i \in DOMAIN cs |-> LowerChar(cs[i])])

-----------------------------------------------------------------------------
(* The store *)

CustomerRow(id, name, email, phone, status, now) ==
    [id |-> id, name |-> Text(name), email |-> Text(email),
     phone |-> Text(phone), status |-> Text(status),
     created_at |-> now, updated_at |-> now]

TicketRow(id, customer_id, issue, status, priority, now) ==
    [id |-> id, customer_id |-> customer_id, issue |-> issue,
     status |-> status, priority |-> priority, created_at |-> now]

SeedCustomers(now) ==
    { CustomerRow(1, "Alice Premium", "alice@example.com", "111-111-1111", "active", now),
      CustomerRow(2, "Bob Standard", "bob@example.com", "222-222-2222", "active", now),
      CustomerRow(3, "Charlie Disabled", "charlie@example.com", "333-333-3333", "disabled", now),
      CustomerRow(4, "Diana Premium", "diana@example.com", "444-444-4444", "active", now),
      CustomerRow(5, "Eve Standard", "eve@example.com", "555-555-5555", "active", now),
      CustomerRow(12345, "Priya Patel (Premium)", "priya@example.com", "555-0999", "active", now) }

\* The tickets are inserted without ids into the recreated table: AUTOINCREMENT
\* numbers them 1..7.
SeedTickets(now) ==
    << TicketRow(1, 1, "Billing duplicate charge", "open", "high", now),
       TicketRow(2, 1, "Unable to login", "in_progress", "medium", now),
       TicketRow(3, 2, "Request upgrade", "open", "low", now),
       TicketRow(4, 4, "Critical outage", "open", "high", now),
       TicketRow(5, 5, "Password reset", "open", "low", now),
       TicketRow(6, 12345, "Account upgrade assistance", "open", "medium", now),
       TicketRow(7, 12345, "High priority refund review", "open", "high", now) >>

\* conn = db_conn(): sqlite3.connect opens a handle on the store file.
db_conn(db) == [db EXCEPT !.handles = @ + 1]

\* conn.close()
conn_close(db) == [db EXCEPT !.handles = @ - 1]

\* Mutant: the tables are created and seeded only when the store has none
\* ("initialize database if needed"): a store that has rows is left as it is.
init_db_IfNeeded(db) ==
    LET conn == db_conn(db)
        now == conn.clock + 1
    IN  IF conn.customers = {} /\ conn.tickets = <<>>
        THEN conn_close([conn EXCEPT !.customers = SeedCustomers(now),
                                     !.tickets = SeedTickets(now),
                                     !.clock = now])
        ELSE conn_close([conn EXCEPT !.clock = now])

\* init_db: drop both tables, recreate them, insert the seed rows stamped with
\* one reading of the clock; its connection is closed after the commit.
init_db(db) ==
    LET conn == db_conn(db)
        now == conn.clock + 1
    IN  conn_close([conn EXCEPT !.customers = SeedCustomers(now),
                                !.tickets = SeedTickets(now),
                                !.clock = now])

\* Mutant: the SELECT loses its WHERE clause.
SelectCustomer_NoWhere(rows, customer_id) == rows

\* SELECT * FROM customers WHERE id=?
SelectCustomer(rows, customer_id) == { r \in rows : r.id = customer_id }

\* Mutant: the SET clause does not refresh updated_at.
SetColumns_KeepUpdatedAt(r, updates, now) ==
    [c \in DOMAIN r |-> IF c \in DOMAIN updates THEN StoreText(updates[c]) ELSE r[c]]

\* Mutant: the SET clause names all four updatable columns; a column the
\* request does not carry is set to NULL.
SetColumns_AllFields(r, updates, now) ==
    [c \in DOMAIN r |->
        IF c \in DOMAIN updates THEN StoreText(updates[c])
        ELSE IF c \in {"name", "email", "phone", "status"} THEN Null
        ELSE IF c = "updated_at" THEN now
        ELSE r[c]]

\* UPDATE customers SET <k=? for k in updates>, updated_at=? WHERE id=?
SetColumns(r, updates, now) ==
    [c \in DOMAIN r |->
        IF c \in DOMAIN updates THEN StoreText(updates[c])
        ELSE IF c = "updated_at" THEN now
        ELSE r[c]]

\* Mutant: the UPDATE loses its WHERE clause.
UpdateCustomers_NoWhere(rows, customer_id, updates, now) ==
    { SetColumns(r, updates, now) : r \in rows }

\* Mutant: the UPDATE becomes an upsert, inserting a row for an absent id.
UpdateCustomers_Upsert(rows, customer_id, updates, now) ==
    IF \E r \in rows : r.id = customer_id
    THEN { IF r.id = customer_id THEN SetColumns(r, updates, now) ELSE r : r \in rows }
    ELSE rows \cup { SetColumns([id |-> customer_id, name |-> Null, email |-> Null,
                                 phone |-> Null, status |-> Null,
                                 created_at |-> now, updated_at |-> now], updates, now) }

UpdateCustomers(rows, customer_id, updates, now) ==
    { IF r.id = customer_id THEN SetColumns(r, updates, now) ELSE r : r \in rows }

\* Mutant: the INSERT reuses the last ticket's id and replaces that row.
InsertTicket_Replace(rows, customer_id, issue, status, priority, now) ==
    Append(SubSeq(rows, 1, Len(rows) - 1),
           TicketRow(Len(rows), customer_id, issue, status, priority, now))

\* INSERT INTO tickets (customer_id, issue, status, priority, created_at):
\* the row gets the next AUTOINCREMENT id (no ticket is ever deleted, so that
\* is one more than the number of rows), returned as lastrowid.
InsertTicket(rows, customer_id, issue, status, priority, now) ==
    Append(rows, TicketRow(Len(rows) + 1, customer_id, issue, status, priority, now))

\* SELECT * FROM tickets WHERE id=?
SelectTicket(rows, ticket_id) == { rows[i] : i \in { j \in DOMAIN rows : rows[j].id = ticket_id } }

\* Mutant: the ORDER BY loses its DESC.
RECURSIVE OrderByCreatedAtDesc_Ascending(_)
OrderByCreatedAtDesc_Ascending(S) ==
    IF S = {} THEN <<>>
    ELSE LET first == CHOOSE r \in S : \A q \in S :
                          \/ r.created_at < q.created_at
                          \/ r.created_at = q.created_at /\ r.id <= q.id
         IN  <<first>> \o OrderByCreatedAtDesc_Ascending(S \ {first})

\* ... ORDER BY created_at DESC; rows with equal created_at come in rowid order.
RECURSIVE OrderByCreatedAtDesc(_)
OrderByCreatedAtDesc(S) ==
    IF S = {} THEN <<>>
    ELSE LET first == CHOOSE r \in S : \A q \in S :
                          \/ r.created_at > q.created_at
                          \/ r.created_at = q.created_at /\ r.id <= q.id
         IN  <<first>> \o OrderByCreatedAtDesc(S \ {first})

\* A scan of customers visits the rows in rowid (id) order.
RECURSIVE OrderById(_)
OrderById(S) ==
    IF S = {} THEN <<>>
    ELSE LET first == CHOOSE r \in S : \A q \in S : r.id <= q.id
         IN  <<first>> \o OrderById(S \ {first})

\* LIMIT ?: a negative limit is no limit.
Limit(seq, n) ==
    IF n < 0 \/ n >= Len(seq) THEN seq ELSE SubSeq(seq, 1, n)

-----------------------------------------------------------------------------
(* Envelopes *)

Success(data) == [success |-> TRUE, data |-> data]
SuccessList(rows) == [success |-> TRUE, data |-> rows, count |-> Len(rows)]
Failure(message) == [success |-> FALSE, error |-> message]
Raise(type, message) == [exception |-> type, message |-> message]

\* No envelope: nothing has been returned.
NoResult == [none |-> TRUE]

CustomerNotFound(customer_id) == "Customer " \o ToString(customer_id) \o " not found"

-----------------------------------------------------------------------------
(* MCPServer: the tools *)

NoRow(rows) == rows = {}
FetchOne(rows) == CHOOSE r \in rows : TRUE

\* if status: -- None and the empty string select no filter.
Truthy(val) == val.t = "text" /\ val.v # ""

\* Each handler opens a connection first; where it returns, it has closed it;
\* where it raises, the statement that raised is followed by no close.

_get_customer_tool(db, customer_id) ==
    LET conn == db_conn(db)
        row == SelectCustomer(conn.customers, customer_id)
    IN  [db |-> conn_close(conn),
         ret |-> IF ~NoRow(row) THEN Success(FetchOne(row))
                 ELSE Failure(CustomerNotFound(customer_id))]

_list_customers_tool(db, status, limit) ==
    LET conn == db_conn(db)
        matching == IF Truthy(status)
                    THEN { r \in conn.customers : r.status = status }
                    ELSE conn.customers
        rows == Limit(OrderById(matching), limit)
    IN  [db |-> conn_close(conn), ret |-> SuccessList(rows)]

allowed_fields == {"name", "email", "phone", "status"}

\* {k: v for k, v in data.items() if k in allowed_fields}
Updates(data) == [k \in { f \in DOMAIN data : f \in allowed_fields } |-> data[k]]

\* Mutant: the empty-update check is lost.
NoValidFields_Never(updates) == FALSE

\* if not updates:
NoValidFields(updates) == DOMAIN updates = {}

\* Mutant: the customer is looked up first; an absent id is reported before
\* the fields are examined and before any UPDATE.
_update_customer_tool_LookupFirst(db, customer_id, data) ==
    LET conn == db_conn(db)
        updates == Updates(data)
        now == conn.clock + 1
        ticked == [conn EXCEPT !.clock = now]
        written == [ticked EXCEPT !.customers =
                        UpdateCustomers(conn.customers, customer_id, updates, now)]
        row == SelectCustomer(written.customers, customer_id)
    IN  IF IsTagged(data)
        THEN [db |-> conn,
              ret |-> Raise("AttributeError",
                            "'" \o TypeName(data) \o "' object has no attribute 'items'")]
        ELSE IF NoRow(SelectCustomer(conn.customers, customer_id))
        THEN [db |-> conn_close(conn), ret |-> Failure(CustomerNotFound(customer_id))]
        ELSE IF NoValidFields(updates)
        THEN [db |-> conn_close(conn), ret |-> Failure("No valid fields to update")]
        ELSE IF \E k \in DOMAIN updates : ~Bindable(updates[k])
        THEN [db |-> ticked,
              ret |-> Raise("ProgrammingError", "Error binding parameter: type is not supported")]
        ELSE [db |-> conn_close(written), ret |-> Success(FetchOne(row))]

_update_customer_tool(db, customer_id, data) ==
    LET conn == db_conn(db)
        updates == Updates(data)
        now == conn.clock + 1
        ticked == [conn EXCEPT !.clock = now]
        written == [ticked EXCEPT !.customers =
                        UpdateCustomers(conn.customers, customer_id, updates, now)]
        row == SelectCustomer(written.customers, customer_id)
    IN  IF IsTagged(data)
        THEN [db |-> conn,
              ret |-> Raise("AttributeError",
                            "'" \o TypeName(data) \o "' object has no attribute 'items'")]
        ELSE IF NoValidFields(updates)
        THEN [db |-> conn_close(conn), ret |-> Failure("No valid fields to update")]
        ELSE IF \E k \in DOMAIN updates : ~Bindable(updates[k])
        THEN [db |-> ticked,
              ret |-> Raise("ProgrammingError", "Error binding parameter: type is not supported")]
        ELSE [db |-> conn_close(written),
              ret |-> IF ~NoRow(row) THEN Success(FetchOne(row))
                      ELSE Failure(CustomerNotFound(customer_id))]

\* Mutant: the priority is not validated.
ValidPriority_Always(priority) == TRUE

\* priority.lower() in ["low", "medium", "high"]
ValidPriority(priority) == lower(priority) \in {"low", "medium", "high"}

\* Mutant: the priority is stored as given.
StoredPriority_AsGiven(priority) == Join(priority)

\* The priority bound to the INSERT: priority.lower()
StoredPriority(priority) == lower(priority)

\* Mutant: the ticket is refused when its customer does not exist.
_create_ticket_tool_CheckCustomer(db, customer_id, issue, priority) ==
    LET conn == db_conn(db)
        now == conn.clock + 1
        inserted == [conn EXCEPT !.clock = now,
                                 !.tickets = InsertTicket(conn.tickets, customer_id, issue,
                                                          "open", StoredPriority(priority), now)]
        row == SelectTicket(inserted.tickets, Len(inserted.tickets))
    IN  IF IsTagged(priority)
        THEN [db |-> conn,
              ret |-> Raise("AttributeError",
                            "'" \o TypeName(priority) \o "' object has no attribute 'lower'")]
        ELSE IF ~ValidPriority(priority)
        THEN [db |-> conn_close(conn),
              ret |-> Failure("Priority must be 'low', 'medium', or 'high'")]
        ELSE IF NoRow(SelectCustomer(conn.customers, customer_id))
        THEN [db |-> conn_close(conn), ret |-> Failure(CustomerNotFound(customer_id))]
        ELSE [db |-> conn_close(inserted), ret |-> Success(FetchOne(row))]

_create_ticket_tool(db, customer_id, issue, priority) ==
    LET conn == db_conn(db)
        now == conn.clock + 1
        inserted == [conn EXCEPT !.clock = now,
                                 !.tickets = InsertTicket(conn.tickets, customer_id, issue,
                                                          "open", StoredPriority(priority), now)]
        ticket_id == Len(inserted.tickets)
        row == SelectTicket(inserted.tickets, ticket_id)
    IN  IF IsTagged(priority)
        THEN [db |-> conn,
              ret |-> Raise("AttributeError",
                            "'" \o TypeName(priority) \o "' object has no attribute 'lower'")]
        ELSE IF ~ValidPriority(priority)
        THEN [db |-> conn_close(conn),
              ret |-> Failure("Priority must be 'low', 'medium', or 'high'")]
        ELSE [db |-> conn_close(inserted),
              ret |-> IF ~NoRow(row) THEN Success(FetchOne(row))
                      ELSE Failure("Failed to create ticket")]

_get_customer_history_tool(db, customer_id) ==
    LET conn == db_conn(db)
        rows == OrderByCreatedAtDesc(
                    { conn.tickets[i] : i \in { j \in DOMAIN conn.tickets :
                                                  conn.tickets[j].customer_id = customer_id } })
    IN  [db |-> conn_close(conn), ret |-> SuccessList(rows)]

-----------------------------------------------------------------------------
(* MCPServer: the registry and its dispatch *)

tools == {"get_customer", "list_customers", "update_customer", "create_ticket",
          "get_customer_history"}

\* The parameters each tool's signature requires, and those it defaults.
Required(tool_name) ==
    CASE tool_name = "get_customer" -> {"customer_id"}
      [] tool_name = "list_customers" -> {}
      [] tool_name = "update_customer" -> {"customer_id", "data"}
      [] tool_name = "create_ticket" -> {"customer_id", "issue"}
      [] tool_name = "get_customer_history" -> {"customer_id"}

Optional(tool_name) ==
    CASE tool_name = "list_customers" -> {"status", "limit"}
      [] tool_name = "create_ticket" -> {"priority"}
      [] OTHER -> {}

Arg(kwargs, name, default) == IF name \in DOMAIN kwargs THEN kwargs[name] ELSE default

DefaultPriority == <<"m", "e", "d", "i", "u", "m">>

\* self.tools[tool_name](**kwargs): Python binds the keyword arguments to the
\* signature (TypeError when one is missing or unexpected), then runs the body.
Invoke(db, tool_name, kwargs) ==
    IF ~(Required(tool_name) \subseteq DOMAIN kwargs)
    THEN [db |-> db, ret |-> Raise("TypeError", "missing required positional argument")]
    ELSE IF ~(DOMAIN kwargs \subseteq Required(tool_name) \cup Optional(tool_name))
    THEN [db |-> db, ret |-> Raise("TypeError", "got an unexpected keyword argument")]
    ELSE CASE tool_name = "get_customer" ->
                _get_customer_tool(db, kwargs.customer_id)
           [] tool_name = "list_customers" ->
                _list_customers_tool(db, Arg(kwargs, "status", Null), Arg(kwargs, "limit", 100))
           [] tool_name = "update_customer" ->
                _update_customer_tool(db, kwargs.customer_id, kwargs.data)
           [] tool_name = "create_ticket" ->
                _create_ticket_tool(db, kwargs.customer_id, kwargs.issue,
                                    Arg(kwargs, "priority", DefaultPriority))
           [] tool_name = "get_customer_history" ->
                _get_customer_history_tool(db, kwargs.customer_id)

IsException(ret) == "exception" \in DOMAIN ret

\* Below, CHOOSE r \in { e : x \in {v} } : TRUE is the value of e with x
\* standing for v, v being computed once.

\* Mutant: the membership test is lost; the lookup self.tools[tool_name] raises
\* KeyError inside the try.
call_tool_KeyError(db, tool_name, kwargs) ==
    IF tool_name \notin tools
    THEN [db |-> db, ret |-> Failure("'" \o tool_name \o "'")]
    ELSE CHOOSE r \in { IF IsException(out.ret)
                         THEN [db |-> out.db, ret |-> Failure(out.ret.message)]
                         ELSE out : out \in {Invoke(db, tool_name, kwargs)} } : TRUE

\* Mutant: no try/except around the handler; its exception propagates.
call_tool_NoTry(db, tool_name, kwargs) ==
    IF tool_name \notin tools
    THEN [db |-> db, ret |-> Failure("Unknown tool: " \o tool_name)]
    ELSE Invoke(db, tool_name, kwargs)

call_tool(db, tool_name, kwargs) ==
    IF tool_name \notin tools
    THEN [db |-> db, ret |-> Failure("Unknown tool: " \o tool_name)]
    ELSE CHOOSE r \in { IF IsException(out.ret)
                         THEN [db |-> out.db, ret |-> Failure(out.ret.message)]
                         ELSE out : out \in {Invoke(db, tool_name, kwargs)} } : TRUE

-----------------------------------------------------------------------------
(* The HTTP endpoint POST /call *)

\* A request body: text that parses as JSON to value, or text that does not.
JsonBody(value) == [parses |-> TRUE, value |-> value]
NotJson == [parses |-> FALSE, value |-> Null]

\* JSONResponse(content, status_code)
JSONResponse(db, content, code) == [db |-> db, ret |-> content, status_code |-> code]

\* Mutant: the except branch loses its status_code=500.
mcp_call_tool_Always200(db, body) ==
    IF ~body.parses
    THEN JSONResponse(db, Failure("Expecting value: line 1 column 1 (char 0)"), 200)
    ELSE IF IsTagged(body.value)
    THEN JSONResponse(db, Failure("'" \o TypeName(body.value)
                                      \o "' object has no attribute 'get'"), 200)
    ELSE LET tool_name == Arg(body.value, "tool", "None")
             params == Arg(body.value, "params", NoParams)
         IN  IF IsTagged(params)
             THEN JSONResponse(db, Failure("call_tool() argument after ** must be a mapping, not "
                                           \o TypeName(params)), 200)
             ELSE CHOOSE r \in { IF IsException(out.ret)
                                 THEN JSONResponse(out.db, Failure(out.ret.message), 200)
                                 ELSE JSONResponse(out.db, out.ret, 200)
                                 : out \in {call_tool(db, tool_name, params)} } : TRUE

\* mcp_call_tool: request.json(), body.get("tool"), body.get("params", {}),
\* call_tool(tool_name, **params); any exception on the way is answered with
\* its message and status 500.  A body without "tool" dispatches None, which
\* is no registered name and prints as "None".
mcp_call_tool(db, body) ==
    IF ~body.parses
    THEN JSONResponse(db, Failure("Expecting value: line 1 column 1 (char 0)"), 500)
    ELSE IF IsTagged(body.value)
    THEN JSONResponse(db, Failure("'" \o TypeName(body.value)
                                      \o "' object has no attribute 'get'"), 500)
    ELSE LET tool_name == Arg(body.value, "tool", "None")
             params == Arg(body.value, "params", NoParams)
         IN  IF IsTagged(params)
             THEN JSONResponse(db, Failure("call_tool() argument after ** must be a mapping, not "
                                           \o TypeName(params)), 500)
             ELSE CHOOSE r \in { IF IsException(out.ret)
                                 THEN JSONResponse(out.db, Failure(out.ret.message), 500)
                                 ELSE JSONResponse(out.db, out.ret, 200)
                                 : out \in {call_tool(db, tool_name, params)} } : TRUE

-----------------------------------------------------------------------------
(* The discovery endpoint GET /tools *)

\* Mutant: the list has not followed the registry: get_customer_history is
\* missing and update_customer declares its first parameter as id.
mcp_tools_list_Stale ==
    [tools |-> <<
        [name |-> "get_customer", parameters |-> [customer_id |-> "integer"]],
        [name |-> "list_customers",
         parameters |-> [status |-> "string (optional)", limit |-> "integer (optional)"]],
        [name |-> "update_customer", parameters |-> [id |-> "integer", data |-> "dict"]],
        [name |-> "create_ticket",
         parameters |-> [customer_id |-> "integer", issue |-> "string",
                         priority |-> "string (low/medium/high)"]] >>]

mcp_tools_list ==
    [tools |-> <<
        [name |-> "get_customer", parameters |-> [customer_id |-> "integer"]],
        [name |-> "list_customers",
         parameters |-> [status |-> "string (optional)", limit |-> "integer (optional)"]],
        [name |-> "update_customer", parameters |-> [customer_id |-> "integer", data |-> "dict"]],
        [name |-> "create_ticket",
         parameters |-> [customer_id |-> "integer", issue |-> "string",
                         priority |-> "string (low/medium/high)"]],
        [name |-> "get_customer_history", parameters |-> [customer_id |-> "integer"]] >>]

-----------------------------------------------------------------------------
(* The tool client *)

Quote(s) == "\"" \o s \o "\""

RECURSIVE JoinWith(_, _)
JoinWith(strs, sep) ==
    IF strs = <<>> THEN ""
    ELSE IF Len(strs) = 1 THEN strs[1]
    ELSE strs[1] \o sep \o JoinWith(Tail(strs), sep)

\* dict(row) keeps the columns in the order of the table's declaration.
CustomerColumns == <<"id", "name", "email", "phone", "status", "created_at", "updated_at">>
TicketColumns == <<"id", "customer_id", "issue", "status", "priority", "created_at">>

\* json.dumps of one column of a row: a number, null, or a quoted string (the
\* model's strings hold no character that JSON escapes).
DumpsColumn(row, c) ==
    IF c \in {"id", "customer_id", "created_at", "updated_at"} THEN ToString(row[c])
    ELSE IF "name" \notin DOMAIN row THEN Quote(row[c])
    ELSE IF row[c].t = "null" THEN "null"
    ELSE Quote(row[c].v)

DumpsRow(row, pad) ==
    LET cols == IF "name" \in DOMAIN row THEN CustomerColumns ELSE TicketColumns
        members == [i \in DOMAIN cols |->
                       pad \o "  " \o Quote(cols[i]) \o ": " \o DumpsColumn(row, cols[i])]
    IN  "{\n" \o JoinWith(members, ",\n") \o "\n" \o pad \o "}"

DumpsList(rows) ==
    IF rows = <<>> THEN "[]"
    ELSE "[\n" \o JoinWith([i \in DOMAIN rows |-> "  " \o DumpsRow(rows[i], "  ")], ",\n")
               \o "\n]"

\* json.dumps(data, indent=2)
json_dumps(data, type) == IF type = "list" THEN DumpsList(data) ELSE DumpsRow(data, "")

\* The JSON type of an envelope's data as the bridge serializes it: the list
\* operations add "count" and send an array, the others send one row.
DataType(envelope) ==
    IF "count" \in DOMAIN envelope THEN "list"
    ELSE IF "data" \in DOMAIN envelope THEN "dict"
    ELSE "NoneType"

\* What requests.post can come back with: the bridge's answer; a read
\* timeout (the bridge has served the request, its answer comes too late); a
\* refused connection; a server-error status; a body that is not JSON; a
\* success envelope whose data is plain text, from another server at the URL.
Outcomes == {"ok", "timeout", "connection_error", "http_error", "not_json", "plain_data"}

Reply(code, parses, json, type) ==
    [status_code |-> code, parses |-> parses, json |-> json, data_type |-> type]

\* requests.post(f"{MCP_SERVER_URL}/call", json={"tool": ..., "params": ...}, timeout=30.0)
requests_post(db, body, outcome) ==
    LET unserved == JSONResponse(db, Failure(""), 0)
    IN  CASE outcome = "ok" ->
               CHOOSE r \in { [served |-> TRUE, out |-> out,
                               reply |-> Reply(out.status_code, TRUE, out.ret, DataType(out.ret))]
                              : out \in {mcp_call_tool(db, body)} } : TRUE
          [] outcome = "timeout" ->
               [served |-> TRUE, out |-> mcp_call_tool(db, body),
                reply |-> Raise("ReadTimeout", "Read timed out. (read timeout=30.0)")]
          [] outcome = "connection_error" ->
               [served |-> FALSE, out |-> unserved,
                reply |-> Raise("ConnectionError", "Connection refused")]
          [] outcome = "http_error" ->
               [served |-> FALSE, out |-> unserved,
                reply |-> Reply(500, TRUE, Failure("Internal Server Error"), "NoneType")]
          [] outcome = "not_json" ->
               [served |-> FALSE, out |-> unserved,
                reply |-> Reply(200, FALSE, Failure(""), "NoneType")]
          [] outcome = "plain_data" ->
               [served |-> FALSE, out |-> unserved,
                reply |-> Reply(200, TRUE, [success |-> TRUE, data |-> "pong"], "str")]

\* What a tool client function hands back to the agent.
Returned(text) == [text |-> text]

\* str(e) of the HTTPError response.raise_for_status() raises.
HTTPError(code) ==
    ToString(code) \o " Server Error: Internal Server Error for url: http://127.0.0.1:8000/call"

\* The rendering of a parsed answer: result.get("success"), result.get("data"),
\* result.get('error', 'Unknown error').
Render(reply) ==
    IF Arg(reply.json, "success", FALSE)
    THEN IF reply.data_type \in {"dict", "list"}
         THEN json_dumps(reply.json.data, reply.data_type)
         ELSE IF reply.data_type = "str" THEN reply.json.data
         ELSE "None"
    ELSE "Error: " \o Arg(reply.json, "error", "Unknown error")

\* The text _call_mcp_tool returns for what requests.post came back with.
TextFor(reply) ==
    IF IsException(reply) THEN "MCP call failed: " \o reply.message
    ELSE IF reply.status_code >= 400 THEN "MCP call failed: " \o HTTPError(reply.status_code)
    ELSE IF ~reply.parses THEN "MCP call failed: Expecting value: line 1 column 1 (char 0)"
    ELSE Render(reply)

\* Mutant: a request that ended in an exception is sent a second time.
_call_mcp_tool_Retry(db, tool_name, params, outcome) ==
    LET request == [tool |-> tool_name, params |-> params]
        Answer(x, n) == [db |-> x.out.db, served |-> x.served, out |-> x.out,
                         request |-> request, sent |-> n, ret |-> Returned(TextFor(x.reply))]
    IN  CHOOSE r \in
            { IF IsException(first.reply)
              THEN CHOOSE a \in { Answer(again, 2) : again \in
                                    {requests_post(first.out.db, JsonBody(request), outcome)} } : TRUE
              ELSE Answer(first, 1)
              : first \in {requests_post(db, JsonBody(request), outcome)} } : TRUE

\* Mutant: response.raise_for_status() is lost.
_call_mcp_tool_NoRaiseForStatus(db, tool_name, params, outcome) ==
    LET request == [tool |-> tool_name, params |-> params]
    IN  CHOOSE r \in
            { [db |-> x.out.db, served |-> x.served, out |-> x.out, request |-> request,
               sent |-> 1,
               ret |-> Returned(IF IsException(x.reply)
                                THEN "MCP call failed: " \o x.reply.message
                                ELSE IF ~x.reply.parses
                                THEN "MCP call failed: Expecting value: line 1 column 1 (char 0)"
                                ELSE Render(x.reply))]
              : x \in {requests_post(db, JsonBody(request), outcome)} } : TRUE

\* _call_mcp_tool: one requests.post inside a try whose except returns
\* "MCP call failed: ..."; sent counts the requests it has sent.
_call_mcp_tool(db, tool_name, params, outcome) ==
    LET request == [tool |-> tool_name, params |-> params]
    IN  CHOOSE r \in
            { [db |-> x.out.db, served |-> x.served, out |-> x.out, request |-> request,
               sent |-> 1, ret |-> Returned(TextFor(x.reply))]
              : x \in {requests_post(db, JsonBody(request), outcome)} } : TRUE

\* The data argument of tool_update_customer: a str that is the JSON text of
\* value, a str that is not JSON, or a value of another type (a dict).
JsonText(value) == [type |-> "str", parses |-> TRUE, value |-> value]
BadJsonText == [type |-> "str", parses |-> FALSE, value |-> Null]
NotStr(type, value) == [type |-> type, parses |-> FALSE, value |-> value]

\* json.loads(data)
json_loads(data) ==
    IF data.type # "str"
    THEN Raise("TypeError", "the JSON object must be str, bytes or bytearray, not " \o data.type)
    ELSE IF ~data.parses
    THEN Raise("JSONDecodeError", "Expecting value: line 1 column 1 (char 0)")
    ELSE [value |-> data.value]

tool_get_customer(db, customer_id, outcome) ==
    _call_mcp_tool(db, "get_customer", [customer_id |-> customer_id], outcome)

tool_list_customers(db, status, limit, outcome) ==
    _call_mcp_tool(db, "list_customers",
                   IF Truthy(status) THEN [limit |-> limit, status |-> status]
                   ELSE [limit |-> limit],
                   outcome)

\* Only json.JSONDecodeError is caught around json.loads.
tool_update_customer(db, customer_id, data, outcome) ==
    LET parsed == json_loads(data)
        unsent == [db |-> db, served |-> FALSE, out |-> JSONResponse(db, Failure(""), 0),
                   request |-> [tool |-> "", params |-> NoParams], sent |-> 0,
                   ret |-> parsed]
    IN  IF IsException(parsed)
        THEN IF parsed.exception = "JSONDecodeError"
             THEN [unsent EXCEPT !.ret =
                       Returned("Error: Invalid JSON data. Data must be a valid JSON string.")]
             ELSE unsent
        ELSE _call_mcp_tool(db, "update_customer",
                            [customer_id |-> customer_id, data |-> parsed.value], outcome)

tool_create_ticket(db, customer_id, issue, priority, outcome) ==
    _call_mcp_tool(db, "create_ticket",
                   [customer_id |-> customer_id, issue |-> issue, priority |-> priority],
                   outcome)

tool_get_customer_history(db, customer_id, outcome) ==
    _call_mcp_tool(db, "get_customer_history", [customer_id |-> customer_id], outcome)

-----------------------------------------------------------------------------
(* Inputs *)

\* An id of a seed customer and an id no customer has.
CustomerIds == {1, 99999}

DataKeys == {"phone", "status", "id"}
DataValues == {Text("x"), Number("7")}
\* The mappings of scalar values, and one carrying a value sqlite3 cannot bind.
DataInputs ==
    UNION { [S -> DataValues] : S \in { T \in SUBSET DataKeys : Cardinality(T) <= MaxDataKeys } }
    \cup { [k \in {"phone"} |-> List("[1]")] }

Issues == {"issue text"}
Priorities == { <<"H", "I", "G", "H">>, <<"u", "r", "g", "e", "n", "t">> }

StatusFilters == {Text("active"), Text("")}
\* A limit smaller than the table, and a negative one.
Limits == {2, -1}

UnknownTools == {"delete_customer"}

\* create_mcp_tools(): the functions handed to the agents.
create_mcp_tools ==
    {"tool_get_customer", "tool_list_customers", "tool_update_customer",
     "tool_create_ticket", "tool_get_customer_history"}

\* The arguments the agent passes to the tool client.
ClientIds == {1}
ClientListArgs == { [status |-> Text("active"), limit |-> 2] }
ClientData ==
    { JsonText([k \in {"status"} |-> Text("x")]),
      BadJsonText,
      NotStr("dict", [k \in {"status"} |-> Text("x")]) }
\* The transport has no part in a call that sends nothing.
OutcomesFor(data) == IF IsException(json_loads(data)) THEN {"none"} ELSE Outcomes
ClientPriorities == { DefaultPriority, <<"u", "r", "g", "e", "n", "t">> }

\* Requests whose operation raises: a missing parameter, an unexpected one, a
\* data that is no mapping, a value the store cannot bind, a priority that is
\* no string.
BadRequests ==
    { [tool |-> "get_customer", params |-> NoParams],
      [tool |-> "get_customer", params |-> [customer_id |-> 1, extra |-> 2]],
      [tool |-> "update_customer", params |-> [customer_id |-> 1, data |-> Text("notadict")]],
      [tool |-> "update_customer",
       params |-> [customer_id |-> 1, data |-> [k \in {"phone"} |-> List("[1]")]]],
      [tool |-> "create_ticket",
       params |-> [customer_id |-> 1, issue |-> "issue text", priority |-> Null]] }

\* Bodies that are not JSON, not a mapping, carry params that are no mapping,
\* or name no tool.
OddBodies ==
    { NotJson,
      JsonBody(List("[1]")),
      JsonBody([tool |-> "get_customer", params |-> List("[1]")]),
      JsonBody([params |-> NoParams]) }

-----------------------------------------------------------------------------
(* The router *)

\* Messages the router serves at the same time.
MaxInvocations == 2

Invocations == 1..MaxInvocations

\* sub_agents=[remote_customer_data_agent, remote_support_agent], by the names
\* the remote agents are given.
sub_agents_Swapped == <<"support", "customer_data">>

sub_agents == <<"customer_data", "support">>

\* Messages for one specialist and for the other (examples of the agent cards).
Messages == {"Get customer information for ID 5", "I've been charged twice"}

\* What the run of a remote agent ends with: the agent's reply, or the error
\* event of a call that failed.
Replies == {"reply", "error"}

\* An invocation the router is not running.
Idle == [pc |-> "idle", i |-> 0, message |-> "", events |-> <<>>]

-----------------------------------------------------------------------------
(* Requests served at the same time *)

\* POST /call requests the server has in progress at once.
MaxRequests == 2

Requests == 1..MaxRequests

\* Updates of one customer that write the same field, another field, and an
\* update of a customer that does not exist; a ticket for the same customer.
ConcurrentCalls ==
    { [tool |-> "update_customer",
       params |-> [customer_id |-> 1, data |-> [k \in {"phone"} |-> Text("x")]]],
      [tool |-> "update_customer",
       params |-> [customer_id |-> 1, data |-> [k \in {"phone"} |-> Text("y")]]],
      [tool |-> "update_customer",
       params |-> [customer_id |-> 1, data |-> [k \in {"status"} |-> Text("x")]]],
      [tool |-> "update_customer",
       params |-> [customer_id |-> 99999, data |-> [k \in {"phone"} |-> Text("x")]]],
      [tool |-> "create_ticket",
       params |-> [customer_id |-> 1, issue |-> "issue text"]] }

\* A request the server has not received.
NotArrived ==
    [pc |-> "idle", tool |-> "", params |-> NoParams, now |-> 0, ticket_id |-> 0,
     ret |-> NoResult, status_code |-> 0]

\* Mutant: the handlers await the store (an asynchronous driver) at each
\* statement.
SuspensionPoints_AwaitStore == {"json", "write", "read", "send"}

\* Where the coroutine of a request gives up the event loop: at
\* await request.json() and while the response is sent.  The awaits of
\* call_tool and of the handler do not suspend: no handler body awaits
\* anything, and sqlite3's calls block.
SuspensionPoints == {"json", "send"}

\* The handler up to its first writing statement: the connection is opened
\* and the arguments are validated.
HandlerEntry(db, req) ==
    LET conn == db_conn(db)
    IN  CASE req.tool = "update_customer" ->
                IF NoValidFields(Updates(req.params.data))
                THEN [db |-> conn_close(conn), pc |-> "send",
                      ret |-> Failure("No valid fields to update")]
                ELSE [db |-> conn, pc |-> "write", ret |-> NoResult]
          [] req.tool = "create_ticket" ->
                IF ~ValidPriority(Arg(req.params, "priority", DefaultPriority))
                THEN [db |-> conn_close(conn), pc |-> "send",
                      ret |-> Failure("Priority must be 'low', 'medium', or 'high'")]
                ELSE [db |-> conn, pc |-> "write", ret |-> NoResult]

\* The writing statement and its commit: the UPDATE of update_customer, the
\* INSERT of create_ticket (whose lastrowid is kept as ticket_id).
HandlerWrite(db, req) ==
    LET now == db.clock + 1
    IN  CASE req.tool = "update_customer" ->
                [db |-> [db EXCEPT !.clock = now,
                                   !.customers = UpdateCustomers(db.customers,
                                                     req.params.customer_id,
                                                     Updates(req.params.data), now)],
                 now |-> now, ticket_id |-> 0]
          [] req.tool = "create_ticket" ->
                [db |-> [db EXCEPT !.clock = now,
                                   !.tickets = InsertTicket(db.tickets,
                                                   req.params.customer_id, req.params.issue, "open",
                                                   StoredPriority(Arg(req.params, "priority",
                                                                      DefaultPriority)), now)],
                 now |-> now, ticket_id |-> Len(db.tickets) + 1]

\* The SELECT that reads the row back, conn.close() and the return.
HandlerRead(db, req) ==
    CASE req.tool = "update_customer" ->
            LET row == SelectCustomer(db.customers, req.params.customer_id)
            IN  [db |-> conn_close(db),
                 ret |-> IF ~NoRow(row) THEN Success(FetchOne(row))
                         ELSE Failure(CustomerNotFound(req.params.customer_id))]
      [] req.tool = "create_ticket" ->
            LET row == SelectTicket(db.tickets, req.ticket_id)
            IN  [db |-> conn_close(db),
                 ret |-> IF ~NoRow(row) THEN Success(FetchOne(row))
                         ELSE Failure("Failed to create ticket")]

-----------------------------------------------------------------------------
(* The state machine *)

Db == [customers |-> customers, tickets |-> tickets, clock |-> clock, handles |-> handles]

NoClient == [fn |-> "none"]

Init ==
    LET db == init_db([customers |-> {}, tickets |-> <<>>, clock |-> 0, handles |-> 0])
    IN  /\ customers = db.customers
        /\ tickets = db.tickets
        /\ clock = db.clock
        /\ handles = db.handles
        /\ call = [tool |-> "init_db", params |-> NoParams]
        /\ result = NoResult
        /\ status_code = 0
        /\ client = NoClient
        /\ router = [k \in Invocations |-> Idle]
        /\ requests = [r \in Requests |-> NotArrived]
        /\ running = 0

\* Each action below is one POST /call: the body is handled by mcp_call_tool,
\* dispatched through call_tool, and the envelope returned.

GetCustomer ==
    \E id \in CustomerIds :
        LET params == [customer_id |-> id]
        IN  \E out \in {mcp_call_tool(Db, JsonBody([tool |-> "get_customer", params |-> params]))} :
            /\ out.db.clock <= MaxClock
            /\ out.db.handles <= MaxHandles
            /\ UNCHANGED <<router, requests, running>>
            /\ customers' = out.db.customers
            /\ tickets' = out.db.tickets
            /\ clock' = out.db.clock
            /\ handles' = out.db.handles
            /\ call' = [tool |-> "get_customer", params |-> params]
            /\ result' = out.ret
            /\ status_code' = out.status_code
            /\ client' = client

ListCustomers ==
    \E params \in {NoParams} \cup [status : StatusFilters, limit : Limits] :
        \E out \in {mcp_call_tool(Db, JsonBody([tool |-> "list_customers", params |-> params]))} :
            /\ out.db.clock <= MaxClock
            /\ out.db.handles <= MaxHandles
            /\ UNCHANGED <<router, requests, running>>
            /\ customers' = out.db.customers
            /\ tickets' = out.db.tickets
            /\ clock' = out.db.clock
            /\ handles' = out.db.handles
            /\ call' = [tool |-> "list_customers", params |-> params]
            /\ result' = out.ret
            /\ status_code' = out.status_code
            /\ client' = client

UpdateCustomer ==
    \E id \in CustomerIds, d \in DataInputs :
        LET params == [customer_id |-> id, data |-> d]
        IN  \E out \in {mcp_call_tool(Db, JsonBody([tool |-> "update_customer", params |-> params]))} :
            /\ out.db.clock <= MaxClock
            /\ out.db.handles <= MaxHandles
            /\ UNCHANGED <<router, requests, running>>
            /\ customers' = out.db.customers
            /\ tickets' = out.db.tickets
            /\ clock' = out.db.clock
            /\ handles' = out.db.handles
            /\ call' = [tool |-> "update_customer", params |-> params]
            /\ result' = out.ret
            /\ status_code' = out.status_code
            /\ client' = client

CreateTicket ==
    \E params \in [customer_id : CustomerIds, issue : Issues]
                  \cup [customer_id : CustomerIds, issue : Issues, priority : Priorities] :
        \E out \in {mcp_call_tool(Db, JsonBody([tool |-> "create_ticket", params |-> params]))} :
            /\ out.db.clock <= MaxClock
            /\ out.db.handles <= MaxHandles
            /\ UNCHANGED <<router, requests, running>>
            /\ customers' = out.db.customers
            /\ tickets' = out.db.tickets
            /\ clock' = out.db.clock
            /\ handles' = out.db.handles
            /\ call' = [tool |-> "create_ticket", params |-> params]
            /\ result' = out.ret
            /\ status_code' = out.status_code
            /\ client' = client

GetCustomerHistory ==
    \E id \in CustomerIds :
        LET params == [customer_id |-> id]
        IN  \E out \in {mcp_call_tool(Db, JsonBody([tool |-> "get_customer_history", params |-> params]))} :
            /\ out.db.clock <= MaxClock
            /\ out.db.handles <= MaxHandles
            /\ UNCHANGED <<router, requests, running>>
            /\ customers' = out.db.customers
            /\ tickets' = out.db.tickets
            /\ clock' = out.db.clock
            /\ handles' = out.db.handles
            /\ call' = [tool |-> "get_customer_history", params |-> params]
            /\ result' = out.ret
            /\ status_code' = out.status_code
            /\ client' = client

UnknownTool ==
    \E name \in UnknownTools :
        LET params == NoParams
        IN  \E out \in {mcp_call_tool(Db, JsonBody([tool |-> name, params |-> params]))} :
            /\ out.db.clock <= MaxClock
            /\ out.db.handles <= MaxHandles
            /\ UNCHANGED <<router, requests, running>>
            /\ customers' = out.db.customers
            /\ tickets' = out.db.tickets
            /\ clock' = out.db.clock
            /\ handles' = out.db.handles
            /\ call' = [tool |-> name, params |-> params]
            /\ result' = out.ret
            /\ status_code' = out.status_code
            /\ client' = client

\* A cold start of the server: a new process, holding no connection, runs
\* init_db on the store file.
InitDb ==
    LET db == init_db([Db EXCEPT !.handles = 0])
    IN  /\ db.clock <= MaxClock
        /\ UNCHANGED <<router, requests, running>>
        /\ customers' = db.customers
        /\ tickets' = db.tickets
        /\ clock' = db.clock
        /\ handles' = db.handles
        /\ call' = [tool |-> "init_db", params |-> NoParams]
        /\ result' = NoResult
        /\ status_code' = 0
        /\ client' = client

Next ==
    \/ GetCustomer
    \/ ListCustomers
    \/ UpdateCustomer
    \/ CreateTicket
    \/ GetCustomerHistory
    \/ UnknownTool
    \/ InitDb

Spec == Init /\ [][Next]_vars

-----------------------------------------------------------------------------
(* Requests that make an operation raise, and bodies the endpoint cannot
   dispatch *)

BadArguments ==
    \E req \in BadRequests :
        LET params == req.params
        IN  \E out \in {mcp_call_tool(Db, JsonBody([tool |-> req.tool, params |-> params]))} :
            /\ out.db.clock <= MaxClock
            /\ out.db.handles <= MaxHandles
            /\ UNCHANGED <<router, requests, running>>
            /\ customers' = out.db.customers
            /\ tickets' = out.db.tickets
            /\ clock' = out.db.clock
            /\ handles' = out.db.handles
            /\ call' = [tool |-> req.tool, params |-> params]
            /\ result' = out.ret
            /\ status_code' = out.status_code
            /\ client' = client

\* A POST /call whose body is not {"tool": ..., "params": {...}}.
PostBody ==
    \E body \in OddBodies :
        \E out \in {mcp_call_tool(Db, body)} :
            /\ out.db.clock <= MaxClock
            /\ out.db.handles <= MaxHandles
            /\ UNCHANGED <<router, requests, running>>
            /\ customers' = out.db.customers
            /\ tickets' = out.db.tickets
            /\ clock' = out.db.clock
            /\ handles' = out.db.handles
            /\ call' = [tool |-> "", params |-> NoParams, body |-> body]
            /\ result' = out.ret
            /\ status_code' = out.status_code
            /\ client' = client

BridgeNext ==
    \/ GetCustomer
    \/ CreateTicket
    \/ GetCustomerHistory
    \/ BadArguments
    \/ PostBody

BridgeSpec == Init /\ [][BridgeNext]_vars

-----------------------------------------------------------------------------
(* The agent's calls of the tool client, and discovery *)

\* Each action below is one call of a tool client function by an agent, with
\* what the transport does to its request.

ToolGetCustomer ==
    \E id \in ClientIds, o \in Outcomes :
        \E r \in {tool_get_customer(Db, id, o)} :
            /\ r.db.clock <= MaxClock
            /\ r.db.handles <= MaxHandles
            /\ UNCHANGED <<router, requests, running>>
            /\ customers' = r.db.customers
            /\ tickets' = r.db.tickets
            /\ clock' = r.db.clock
            /\ handles' = r.db.handles
            /\ call' = IF r.served THEN r.request ELSE call
            /\ result' = IF r.served THEN r.out.ret ELSE result
            /\ status_code' = IF r.served THEN r.out.status_code ELSE status_code
            /\ client' = [fn |-> "tool_get_customer", args |-> [customer_id |-> id], outcome |-> o,
                          sent |-> r.sent, request |-> r.request, ret |-> r.ret]

ToolListCustomers ==
    \E a \in ClientListArgs, o \in Outcomes :
        \E r \in {tool_list_customers(Db, a.status, a.limit, o)} :
            /\ r.db.clock <= MaxClock
            /\ r.db.handles <= MaxHandles
            /\ UNCHANGED <<router, requests, running>>
            /\ customers' = r.db.customers
            /\ tickets' = r.db.tickets
            /\ clock' = r.db.clock
            /\ handles' = r.db.handles
            /\ call' = IF r.served THEN r.request ELSE call
            /\ result' = IF r.served THEN r.out.ret ELSE result
            /\ status_code' = IF r.served THEN r.out.status_code ELSE status_code
            /\ client' = [fn |-> "tool_list_customers", args |-> a, outcome |-> o,
                          sent |-> r.sent, request |-> r.request, ret |-> r.ret]

ToolUpdateCustomer ==
    \E id \in ClientIds, d \in ClientData : \E o \in OutcomesFor(d) :
        \E r \in {tool_update_customer(Db, id, d, o)} :
            /\ r.db.clock <= MaxClock
            /\ r.db.handles <= MaxHandles
            /\ UNCHANGED <<router, requests, running>>
            /\ customers' = r.db.customers
            /\ tickets' = r.db.tickets
            /\ clock' = r.db.clock
            /\ handles' = r.db.handles
            /\ call' = IF r.served THEN r.request ELSE call
            /\ result' = IF r.served THEN r.out.ret ELSE result
            /\ status_code' = IF r.served THEN r.out.status_code ELSE status_code
            /\ client' = [fn |-> "tool_update_customer", args |-> [customer_id |-> id, data |-> d], outcome |-> o,
                          sent |-> r.sent, request |-> r.request, ret |-> r.ret]

ToolCreateTicket ==
    \E id \in ClientIds, i \in Issues, p \in ClientPriorities, o \in Outcomes :
        \E r \in {tool_create_ticket(Db, id, i, p, o)} :
            /\ r.db.clock <= MaxClock
            /\ r.db.handles <= MaxHandles
            /\ UNCHANGED <<router, requests, running>>
            /\ customers' = r.db.customers
            /\ tickets' = r.db.tickets
            /\ clock' = r.db.clock
            /\ handles' = r.db.handles
            /\ call' = IF r.served THEN r.request ELSE call
            /\ result' = IF r.served THEN r.out.ret ELSE result
            /\ status_code' = IF r.served THEN r.out.status_code ELSE status_code
            /\ client' = [fn |-> "tool_create_ticket", args |-> [customer_id |-> id, issue |-> i, priority |-> p], outcome |-> o,
                          sent |-> r.sent, request |-> r.request, ret |-> r.ret]

ToolGetCustomerHistory ==
    \E id \in ClientIds, o \in Outcomes :
        \E r \in {tool_get_customer_history(Db, id, o)} :
            /\ r.db.clock <= MaxClock
            /\ r.db.handles <= MaxHandles
            /\ UNCHANGED <<router, requests, running>>
            /\ customers' = r.db.customers
            /\ tickets' = r.db.tickets
            /\ clock' = r.db.clock
            /\ handles' = r.db.handles
            /\ call' = IF r.served THEN r.request ELSE call
            /\ result' = IF r.served THEN r.out.ret ELSE result
            /\ status_code' = IF r.served THEN r.out.status_code ELSE status_code
            /\ client' = [fn |-> "tool_get_customer_history", args |-> [customer_id |-> id], outcome |-> o,
                          sent |-> r.sent, request |-> r.request, ret |-> r.ret]

\* GET /tools
ListTools ==
    /\ call' = [tool |-> "GET /tools", params |-> NoParams]
    /\ result' = mcp_tools_list
    /\ status_code' = 200
    /\ UNCHANGED <<customers, tickets, clock, handles, client>>
    /\ UNCHANGED <<router, requests, running>>

ClientNext ==
    \/ ToolGetCustomer
    \/ ToolListCustomers
    \/ ToolUpdateCustomer
    \/ ToolCreateTicket
    \/ ToolGetCustomerHistory
    \/ ListTools

ClientSpec == Init /\ [][ClientNext]_vars

-----------------------------------------------------------------------------
(* The router's pipeline *)

\* router_agent is a SequentialAgent: its run is a loop over sub_agents that
\* runs each sub-agent to its end before it takes the next.  The events of an
\* invocation record which sub-agent started and how its run ended.

\* A message arrives: a run of router_agent begins at the head of sub_agents.
RouterReceive ==
    \E k \in Invocations, m \in Messages :
        /\ router[k].pc \in {"idle", "done"}
        /\ router' = [router EXCEPT ![k] =
                          [pc |-> "loop", i |-> 1, message |-> m, events |-> <<>>]]
        /\ UNCHANGED <<customers, tickets, clock, call, result, status_code, handles, client>>
        /\ UNCHANGED <<requests, running>>

\* for sub_agent in sub_agents: the message is sent to the remote agent.
RunSubAgent ==
    \E k \in Invocations :
        /\ router[k].pc = "loop"
        /\ router[k].i <= Len(sub_agents)
        /\ router' = [router EXCEPT
                          ![k].pc = "sub_agent",
                          ![k].events = Append(@, [author |-> sub_agents[router[k].i],
                                                   kind |-> "start"])]
        /\ UNCHANGED <<customers, tickets, clock, call, result, status_code, handles, client>>
        /\ UNCHANGED <<requests, running>>

\* The remote agent's run ends, with its reply or with an error event; the
\* loop goes on to the next sub-agent whichever it was.
SubAgentReturns ==
    \E k \in Invocations, r \in Replies :
        /\ router[k].pc = "sub_agent"
        /\ router' = [router EXCEPT
                          ![k].pc = "loop",
                          ![k].i = @ + 1,
                          ![k].events = Append(@, [author |-> sub_agents[router[k].i],
                                                   kind |-> r])]
        /\ UNCHANGED <<customers, tickets, clock, call, result, status_code, handles, client>>
        /\ UNCHANGED <<requests, running>>

\* sub_agents is exhausted: the run is over.
RouterReturn ==
    \E k \in Invocations :
        /\ router[k].pc = "loop"
        /\ router[k].i > Len(sub_agents)
        /\ router' = [router EXCEPT ![k].pc = "done"]
        /\ UNCHANGED <<customers, tickets, clock, call, result, status_code, handles, client>>
        /\ UNCHANGED <<requests, running>>

RouterNext ==
    \/ RouterReceive
    \/ RunSubAgent
    \/ SubAgentReturns
    \/ RouterReturn

RouterSpec == Init /\ [][RouterNext]_vars

-----------------------------------------------------------------------------
(* The event loop of the server: requests in progress at once *)

\* The server is one process with one event loop: the coroutine of a request
\* runs until it suspends, and no other runs meanwhile.

\* The request r can take a step: the event loop is free, or r holds it.
CanRun(r) == running \in {0, r}

\* Who holds the event loop after a step that leaves r at pc.
Holder(r, pc) == IF pc \in SuspensionPoints \/ pc = "done" THEN 0 ELSE r

\* A request is accepted; mcp_call_tool starts and awaits the body.
RequestArrives ==
    \E r \in Requests, c \in ConcurrentCalls :
        /\ CanRun(r)
        /\ requests[r].pc = "idle"
        /\ requests' = [requests EXCEPT ![r] =
                            [NotArrived EXCEPT !.pc = "json", !.tool = c.tool,
                                               !.params = c.params]]
        /\ running' = Holder(r, "json")
        /\ UNCHANGED <<customers, tickets, clock, handles>>
        /\ UNCHANGED <<call, result, status_code, client, router>>

\* The body has come: it is parsed, call_tool dispatches it and the handler
\* runs up to its writing statement.
HandlerEnters ==
    \E r \in Requests :
        /\ CanRun(r)
        /\ requests[r].pc = "json"
        /\ \E out \in {HandlerEntry(Db, requests[r])} :
            /\ customers' = out.db.customers
            /\ tickets' = out.db.tickets
            /\ clock' = out.db.clock
            /\ handles' = out.db.handles
            /\ requests' = [requests EXCEPT
                                ![r].pc = out.pc,
                                ![r].ret = out.ret,
                                ![r].status_code = IF out.pc = "send" THEN 200 ELSE 0]
            /\ running' = Holder(r, out.pc)
            /\ UNCHANGED <<call, result, status_code, client, router>>

\* The handler's UPDATE or INSERT, committed.
HandlerWrites ==
    \E r \in Requests :
        /\ CanRun(r)
        /\ requests[r].pc = "write"
        /\ \E out \in {HandlerWrite(Db, requests[r])} :
            /\ customers' = out.db.customers
            /\ tickets' = out.db.tickets
            /\ clock' = out.db.clock
            /\ handles' = out.db.handles
            /\ requests' = [requests EXCEPT
                                ![r].pc = "read",
                                ![r].now = out.now,
                                ![r].ticket_id = out.ticket_id]
            /\ running' = Holder(r, "read")
            /\ UNCHANGED <<call, result, status_code, client, router>>

\* The handler reads the row back, closes the connection and returns; the
\* endpoint wraps the envelope in a JSONResponse.
HandlerReads ==
    \E r \in Requests :
        /\ CanRun(r)
        /\ requests[r].pc = "read"
        /\ \E out \in {HandlerRead(Db, requests[r])} :
            /\ customers' = out.db.customers
            /\ tickets' = out.db.tickets
            /\ clock' = out.db.clock
            /\ handles' = out.db.handles
            /\ requests' = [requests EXCEPT
                                ![r].pc = "send",
                                ![r].ret = out.ret,
                                ![r].status_code = 200]
            /\ running' = Holder(r, "send")
            /\ UNCHANGED <<call, result, status_code, client, router>>

\* The response has been sent.
ResponseSent ==
    \E r \in Requests :
        /\ CanRun(r)
        /\ requests[r].pc = "send"
        /\ requests' = [requests EXCEPT ![r].pc = "done"]
        /\ running' = Holder(r, "done")
        /\ UNCHANGED <<customers, tickets, clock, handles>>
        /\ UNCHANGED <<call, result, status_code, client, router>>

ConcurrentNext ==
    \/ RequestArrives
    \/ HandlerEnters
    \/ HandlerWrites
    \/ HandlerReads
    \/ ResponseSent

ConcurrentSpec == Init /\ [][ConcurrentNext]_vars

-----------------------------------------------------------------------------
(* Cold starts between requests *)

\* Wall-clock readings taken when the first request after a cold start
\* creates a ticket.
MaxSeedClock == 4

\* The first request a restarted server serves is a create_ticket.
FirstTicket ==
    \E params \in [customer_id : CustomerIds, issue : Issues] :
        \E out \in {mcp_call_tool(Db, JsonBody([tool |-> "create_ticket", params |-> params]))} :
            /\ call.tool = "init_db"
            /\ out.db.clock <= MaxSeedClock
            /\ out.db.handles <= MaxHandles
            /\ UNCHANGED <<router, requests, running>>
            /\ customers' = out.db.customers
            /\ tickets' = out.db.tickets
            /\ clock' = out.db.clock
            /\ handles' = out.db.handles
            /\ call' = [tool |-> "create_ticket", params |-> params]
            /\ result' = out.ret
            /\ status_code' = out.status_code
            /\ client' = client

SeedNext ==
    \/ UpdateCustomer
    \/ CreateTicket
    \/ GetCustomerHistory
    \/ InitDb
    \/ FirstTicket

SeedSpec == Init /\ [][SeedNext]_vars

-----------------------------------------------------------------------------
(* Properties *)

\* The allow-list and the value types the specification states.
AllowList == {"name", "email", "phone", "status"}
Applied(data) == DOMAIN data \cap AllowList
Storable(data) == \A k \in Applied(data) : data[k].t \in {"text", "int", "null"}
Exists(rows, id) == \E r \in rows : r.id = id
RowOf(rows, id) == CHOOSE r \in rows : r.id = id
Others(rows, id) == { r \in rows : r.id # id }

\* C1: update_customer on an existing customer changes, in that customer's
\* row, at most the allow-listed keys present in data and updated_at; id and
\* created_at stay; keys outside the allow-list are dropped without an error;
\* every other customer row and every ticket row is unchanged.
C1_UpdateFrame ==
    [][ (call'.tool = "update_customer" /\ Exists(customers, call'.params.customer_id)) =>
        LET id == call'.params.customer_id
            data == call'.params.data
            old == RowOf(customers, id)
        IN  /\ tickets' = tickets
            /\ Others(customers', id) = Others(customers, id)
            /\ Cardinality({ r \in customers' : r.id = id }) = 1
            /\ LET new == RowOf(customers', id)
               IN  /\ new.id = old.id
                   /\ new.created_at = old.created_at
                   /\ \A c \in DOMAIN old \ (Applied(data) \cup {"updated_at"}) :
                          new[c] = old[c]
            /\ (Applied(data) # {} /\ Storable(data)) => result'.success
      ]_vars

\* C1 witness: a successful update whose data carried an allow-listed key and
\* a key outside the allow-list.
C1_Witness ==
    /\ call.tool = "update_customer"
    /\ DOMAIN call.params.data = {"status", "id"}
    /\ result.success
    /\ result.data.id = call.params.customer_id
    /\ result.data.status = call.params.data["status"]

\* C2: update_customer whose data holds no allow-listed key (the empty mapping
\* included) returns {success: false, error: "No valid fields to update"} and
\* leaves every customer row (updated_at included) and every ticket row as it was.
C2_NoValidFields ==
    [][ (call'.tool = "update_customer" /\ Applied(call'.params.data) = {}) =>
        /\ result' = [success |-> FALSE, error |-> "No valid fields to update"]
        /\ customers' = customers
        /\ tickets' = tickets
      ]_vars

\* C2 witness: the failure envelope for a non-empty mapping of unknown keys,
\* for a customer that exists.
C2_Witness ==
    /\ call.tool = "update_customer"
    /\ Exists(customers, call.params.customer_id)
    /\ DOMAIN call.params.data = {"id"}
    /\ result = [success |-> FALSE, error |-> "No valid fields to update"]

\* C3 as stated: update_customer for an id not in the store, with at least one
\* allow-listed field in data, returns "Customer <id> not found", creates no
\* row and changes none.
C3_NotFound_Original ==
    [][ (/\ call'.tool = "update_customer"
         /\ ~Exists(customers, call'.params.customer_id)
         /\ Applied(call'.params.data) # {}) =>
        /\ result' = [success |-> FALSE,
                      error |-> "Customer " \o ToString(call'.params.customer_id) \o " not found"]
        /\ customers' = customers
        /\ tickets' = tickets
      ]_vars

\* C3 amended: update_customer for an id not in the store, with at least one
\* allow-listed field in data, creates no row and changes none; it returns
\* "Customer <id> not found" when every allow-listed value is one the store
\* can bind (text, number, null), and otherwise a failure envelope carrying
\* the store's binding error.
C3_NotFound ==
    [][ (/\ call'.tool = "update_customer"
         /\ ~Exists(customers, call'.params.customer_id)
         /\ Applied(call'.params.data) # {}) =>
        /\ customers' = customers
        /\ tickets' = tickets
        /\ result'.success = FALSE
        /\ Storable(call'.params.data) =>
              result'.error = "Customer " \o ToString(call'.params.customer_id) \o " not found"
        /\ ~Storable(call'.params.data) =>
              result'.error # "Customer " \o ToString(call'.params.customer_id) \o " not found"
      ]_vars

\* C3 witness: the NotFound envelope returned by update_customer.
C3_Witness ==
    /\ call.tool = "update_customer"
    /\ call.params.customer_id = 99999
    /\ Applied(call.params.data) # {}
    /\ result = [success |-> FALSE, error |-> "Customer 99999 not found"]

\* C4 as stated: after a successful update_customer(id, data), the next
\* get_customer(id) returns, for every allow-listed field in data, exactly the
\* value written, and the row update_customer returned equals the row
\* get_customer returns.
C4_RoundTrip ==
    [][ (/\ call.tool = "update_customer"
         /\ result.success
         /\ call'.tool = "get_customer"
         /\ call'.params.customer_id = call.params.customer_id) =>
        /\ result'.success
        /\ result'.data = result.data
        /\ \A k \in Applied(call.params.data) : result'.data[k] = call.params.data[k]
      ]_vars

C6_PriorityDomain ==
    \A i \in DOMAIN tickets : tickets[i].priority \in {"low", "medium", "high"}

\* C6 witness: a ticket created through the registry from the priority "HIGH".
C6_Witness ==
    /\ call.tool = "create_ticket"
    /\ "priority" \in DOMAIN call.params
    /\ call.params.priority = <<"H", "I", "G", "H">>
    /\ Len(tickets) > Len(SeedTickets(clock))
    /\ tickets[Len(tickets)].priority = "high"

\* C7: create_ticket with a priority whose lower-cased form is low, medium or
\* high succeeds, inserts exactly one ticket row carrying the lower-cased
\* priority and returns that row; with any other priority it returns the
\* priority-validation failure envelope and leaves the store unchanged.
C7_CreateTicket ==
    [][ call'.tool = "create_ticket" =>
        LET given == IF "priority" \in DOMAIN call'.params
                     THEN call'.params.priority
                     ELSE <<"m", "e", "d", "i", "u", "m">>
            n == Len(tickets)
        IN  /\ customers' = customers
            /\ IF lower(given) \in {"low", "medium", "high"}
               THEN /\ result'.success
                    /\ Len(tickets') = n + 1
                    /\ SubSeq(tickets', 1, n) = tickets
                    /\ tickets'[n + 1].priority = lower(given)
                    /\ tickets'[n + 1].customer_id = call'.params.customer_id
                    /\ tickets'[n + 1].issue = call'.params.issue
                    /\ result'.data = tickets'[n + 1]
               ELSE /\ result' = [success |-> FALSE,
                                  error |-> "Priority must be 'low', 'medium', or 'high'"]
                    /\ tickets' = tickets
      ]_vars

\* C7 witness: create_ticket(1, "issue text", "HIGH") has succeeded and
\* returned a row of priority "high".
C7_Witness ==
    /\ call.tool = "create_ticket"
    /\ "priority" \in DOMAIN call.params
    /\ call.params.priority = <<"H", "I", "G", "H">>
    /\ call.params.customer_id = 1
    /\ result.success
    /\ result.data.priority = "high"
    /\ result.data = tickets[Len(tickets)]

\* C8: tickets are append-only under the registry operations: no operation
\* changes or deletes an existing ticket row, the table grows only by one row
\* at a time and only through a successful create_ticket, and the row created
\* has status "open".
C8_AppendOnly ==
    [][ call'.tool # "init_db" =>
        LET n == Len(tickets)
        IN  /\ Len(tickets') >= n
            /\ SubSeq(tickets', 1, n) = tickets
            /\ Len(tickets') > n =>
                  /\ Len(tickets') = n + 1
                  /\ call'.tool = "create_ticket"
                  /\ result'.success
                  /\ tickets'[n + 1].status = "open"
                  /\ tickets'[n + 1].id = n + 1
      ]_vars

\* C8 witness: two tickets created after the seed step, the last with status
\* "open".
C8_Witness ==
    /\ call.tool = "create_ticket"
    /\ result.success
    /\ Len(tickets) = Len(SeedTickets(clock)) + 2
    /\ tickets[Len(tickets)].status = "open"

\* C9: create_ticket does not check that the customer exists: with a valid
\* priority it succeeds for a customer_id that has no customer row and stores
\* the ticket, and a get_customer_history for that id then returns the ticket.
C9_NoCustomerCheck ==
    [][ /\ (/\ call'.tool = "create_ticket"
            /\ ~Exists(customers, call'.params.customer_id)
            /\ lower(Arg(call'.params, "priority", <<"m", "e", "d", "i", "u", "m">>))
                  \in {"low", "medium", "high"}) =>
              /\ result'.success
              /\ result'.data.customer_id = call'.params.customer_id
              /\ Len(tickets') = Len(tickets) + 1
              /\ tickets'[Len(tickets')] = result'.data
        /\ (/\ call.tool = "create_ticket"
            /\ result.success
            /\ call'.tool = "get_customer_history"
            /\ call'.params.customer_id = call.params.customer_id) =>
              /\ result'.success
              /\ \E i \in DOMAIN result'.data : result'.data[i] = result.data
      ]_vars

\* C9 witness: get_customer_history has returned a ticket for an id that has
\* no customer row.
C9_Witness ==
    /\ call.tool = "get_customer_history"
    /\ ~Exists(customers, call.params.customer_id)
    /\ result.success
    /\ result.count >= 1
    /\ result.data[1].customer_id = call.params.customer_id

\* C10: get_customer returns a success envelope whose data.id is the input
\* when a customer row with that id exists, and otherwise
\* {success: false, error: "Customer <id> not found"}; the store is unchanged.
C10_GetCustomer ==
    [][ call'.tool = "get_customer" =>
        LET id == call'.params.customer_id
        IN  /\ customers' = customers
            /\ tickets' = tickets
            /\ IF Exists(customers, id)
               THEN /\ result'.success
                    /\ result'.data.id = id
                    /\ result'.data \in customers
               ELSE result' = [success |-> FALSE,
                               error |-> "Customer " \o ToString(id) \o " not found"]
      ]_vars

\* C10 witness: get_customer(99999) has returned the NotFound envelope.
C10_Witness ==
    /\ call.tool = "get_customer"
    /\ call.params.customer_id = 99999
    /\ result = [success |-> FALSE, error |-> "Customer 99999 not found"]

\* C11 as stated: for every status value and every integer limit,
\* list_customers(status, limit) returns customers in insertion order by id, at
\* most limit records and, when status is given, only records whose status
\* equals it; the envelope's count is the number of records returned.
C11_ListCustomers ==
    [][ call'.tool = "list_customers" =>
        LET data == result'.data
            limit == IF "limit" \in DOMAIN call'.params THEN call'.params.limit ELSE 100
        IN  /\ result'.success
            /\ result'.count = Len(data)
            /\ Len(data) <= limit
            /\ \A i \in DOMAIN data : data[i] \in customers
            /\ \A i, j \in DOMAIN data : i < j => data[i].id < data[j].id
            /\ "status" \in DOMAIN call'.params =>
                  \A i \in DOMAIN data : data[i].status = call'.params.status
            /\ customers' = customers
            /\ tickets' = tickets
      ]_vars

\* C12: get_customer_history returns a success envelope whose data holds
\* exactly the tickets with that customer_id, each once, ordered by created_at
\* descending, with count equal to their number; for an id with no ticket (an
\* id with no customer row included) it returns success with an empty
\* sequence and count 0; the store is unchanged.
C12_History ==
    [][ call'.tool = "get_customer_history" =>
        LET id == call'.params.customer_id
            data == result'.data
            mine == { i \in DOMAIN tickets : tickets[i].customer_id = id }
        IN  /\ result'.success
            /\ { data[i] : i \in DOMAIN data } = { tickets[i] : i \in mine }
            /\ Len(data) = Cardinality(mine)
            /\ result'.count = Len(data)
            /\ \A i, j \in DOMAIN data : i < j => data[i].created_at >= data[j].created_at
            /\ mine = {} => (data = <<>> /\ result'.count = 0)
            /\ customers' = customers
            /\ tickets' = tickets
      ]_vars

\* C12 witness: the history of customer 1 holds a ticket created after the
\* seed step ahead of the two seed tickets.
C12_Witness ==
    /\ call.tool = "get_customer_history"
    /\ call.params.customer_id = 1
    /\ result.success
    /\ result.count = 3
    /\ result.data[1].created_at > result.data[2].created_at
    /\ result.data[2].id = 1
    /\ result.data[3].id = 2

\* The five operation names the specification lists.
Registered == {"get_customer", "list_customers", "update_customer", "create_ticket",
               "get_customer_history"}

\* C13: dispatch of a name that is not one of the five registered names
\* returns {success: false, error: "Unknown tool: <name>"}, runs no operation
\* (the clock is not read) and leaves the store unchanged.
C13_UnknownTool ==
    [][ call'.tool \notin Registered \cup {"init_db"} =>
        /\ result' = [success |-> FALSE, error |-> "Unknown tool: " \o call'.tool]
        /\ customers' = customers
        /\ tickets' = tickets
        /\ clock' = clock
      ]_vars

\* C13 witness: the envelope returned for the name delete_customer, after a
\* ticket had been created.
C13_Witness ==
    /\ call.tool = "delete_customer"
    /\ result = [success |-> FALSE, error |-> "Unknown tool: delete_customer"]
    /\ Len(tickets) > Len(SeedTickets(clock))

\* The message of the exception Python or the store raises for a request
\* whose parameters do not fit the operation.
Missing(c) == c.tool = "get_customer" /\ "customer_id" \notin DOMAIN c.params
Unexpected(c) == c.tool = "get_customer" /\ DOMAIN c.params # {"customer_id"}
ExceptionMessage(c) ==
    CASE Missing(c) -> "missing required positional argument"
      [] ~Missing(c) /\ Unexpected(c) -> "got an unexpected keyword argument"
      [] c.tool = "update_customer" /\ c.params.data = Text("notadict") ->
            "'str' object has no attribute 'items'"
      [] c.tool = "update_customer" /\ c.params.data # Text("notadict") ->
            "Error binding parameter: type is not supported"
      [] c.tool = "create_ticket" -> "'NoneType' object has no attribute 'lower'"

\* C14: an exception raised while executing an operation (a missing or an
\* unexpected parameter, a data that is no mapping, a priority that is no
\* string, a store error) is returned as the failure envelope carrying its
\* message, with a normal HTTP status, and changes no row; a valid
\* get_customer or create_ticket served next returns its normal result.
C14_FailureIsolation ==
    [][ /\ call' \in BadRequests =>
              /\ result' = [success |-> FALSE, error |-> ExceptionMessage(call')]
              /\ status_code' = 200
              /\ customers' = customers
              /\ tickets' = tickets
        /\ (call \in BadRequests /\ call' \notin BadRequests /\ call'.tool = "get_customer") =>
              /\ status_code' = 200
              /\ IF Exists(customers, call'.params.customer_id)
                 THEN result' = [success |-> TRUE,
                                 data |-> RowOf(customers, call'.params.customer_id)]
                 ELSE result'.success = FALSE
        /\ (/\ call \in BadRequests
            /\ call' \notin BadRequests
            /\ call'.tool = "create_ticket"
            /\ lower(Arg(call'.params, "priority", <<"m", "e", "d", "i", "u", "m">>))
                  \in {"low", "medium", "high"}) =>
              /\ status_code' = 200
              /\ result'.success
              /\ tickets' = Append(tickets, result'.data)
      ]_vars

\* C14 witness: get_customer(1) has returned the customer after two earlier
\* calls had raised inside their operations.
C14_Witness ==
    /\ call = [tool |-> "get_customer", params |-> [customer_id |-> 1]]
    /\ result.success
    /\ result.data.id = 1
    /\ status_code = 200
    /\ handles = 2

\* C15 as stated: on every path through every operation the connection the
\* call opened is closed by the time it returns: no store handle is open when
\* no operation is executing.
C15_NoOpenHandles == handles = 0

\* A body the endpoint cannot turn into a dispatch.
Malformed(body) ==
    \/ ~body.parses
    \/ IsTagged(body.value)
    \/ "params" \in DOMAIN body.value /\ IsTagged(body.value.params)

\* C16: POST /call always answers with an envelope carrying a boolean
\* success; an envelope produced by the registry (NotFound, validation
\* failure, unknown operation, exception inside an operation) is delivered
\* with status 200; a body that is not JSON, is no mapping or whose params is
\* no mapping is answered {success: false, error: <message>} with status 500.
C16_HttpStatus ==
    call.tool # "init_db" =>
        /\ result.success \in BOOLEAN
        /\ IF "body" \in DOMAIN call /\ Malformed(call.body)
           THEN /\ status_code = 500
                /\ result.success = FALSE
                /\ result.error # ""
                /\ DOMAIN result = {"success", "error"}
           ELSE status_code = 200

\* C16 witness: a body that is not JSON was answered with status 500 and the
\* parser's message.
C16_Witness ==
    /\ "body" \in DOMAIN call
    /\ ~call.body.parses
    /\ status_code = 500
    /\ result = [success |-> FALSE, error |-> "Expecting value: line 1 column 1 (char 0)"]

\* C17 as stated: every tool client function always returns text and never
\* throws, for every argument value and every outcome of the exchange with
\* the bridge.
C17_AlwaysText ==
    client.fn # "none" => "text" \in DOMAIN client.ret

\* C18: a tool client call sends at most one request and the bridge executes
\* at most one operation for it; a call that ends in a transport failure has
\* sent one request and is reported as text; tool_update_customer whose data
\* string does not parse returns its textual error having sent no request,
\* and nothing reaches the bridge.
C18_AtMostOneRequest ==
    [][ client'.fn # "none" =>
        /\ client'.sent \in {0, 1}
        /\ clock' <= clock + 1
        /\ Len(tickets') <= Len(tickets) + 1
        /\ client'.outcome \in {"timeout", "connection_error", "http_error", "not_json"} =>
              /\ client'.sent = 1
              /\ "text" \in DOMAIN client'.ret
        /\ (/\ client'.fn = "tool_update_customer"
            /\ client'.args.data.type = "str"
            /\ ~client'.args.data.parses) =>
              /\ client'.sent = 0
              /\ client'.ret = [text |-> "Error: Invalid JSON data. Data must be a valid JSON string."]
              /\ customers' = customers
              /\ tickets' = tickets
              /\ clock' = clock
              /\ client' # client => (call' = call /\ result' = result)
      ]_vars

\* C18 witness: tool_update_customer has returned its parse error without a
\* request, after an earlier call had created a ticket.
C18_Witness ==
    /\ client.fn = "tool_update_customer"
    /\ client.args.data.type = "str"
    /\ ~client.args.data.parses
    /\ client.sent = 0
    /\ client.ret = [text |-> "Error: Invalid JSON data. Data must be a valid JSON string."]
    /\ call.tool = "create_ticket"
    /\ Len(tickets) > Len(SeedTickets(clock))

\* C19: the text a tool client call returns is, for a success envelope, the
\* indented JSON rendering of data when data is a mapping or a sequence and
\* the plain text of data otherwise; for a failure envelope "Error: " and its
\* message; for a transport failure (a server-error HTTP status included)
\* "MCP call failed: " and the reason.
C19_Rendering ==
    (client.fn # "none" /\ client.sent = 1) =>
        /\ "text" \in DOMAIN client.ret
        /\ CASE client.outcome = "ok" ->
                  call = client.request =>
                      IF result.success
                      THEN client.ret.text =
                              json_dumps(result.data,
                                         IF "count" \in DOMAIN result THEN "list" ELSE "dict")
                      ELSE client.ret.text = "Error: " \o result.error
             [] client.outcome = "plain_data" -> client.ret.text = "pong"
             [] client.outcome = "timeout" ->
                  client.ret.text = "MCP call failed: Read timed out. (read timeout=30.0)"
             [] client.outcome = "connection_error" ->
                  client.ret.text = "MCP call failed: Connection refused"
             [] client.outcome = "http_error" ->
                  client.ret.text = "MCP call failed: 500 Server Error: Internal Server Error for url: http://127.0.0.1:8000/call"
             [] client.outcome = "not_json" ->
                  client.ret.text = "MCP call failed: Expecting value: line 1 column 1 (char 0)"

\* C19 witness: tool_get_customer(1) on the seeded store has returned the
\* customer row as indented JSON.
C19_Witness ==
    /\ client.fn = "tool_get_customer"
    /\ client.outcome = "ok"
    /\ "text" \in DOMAIN client.ret
    /\ client.ret.text = "{\n  \"id\": 1,\n  \"name\": \"Alice Premium\",\n  \"email\": \"alice@example.com\",\n  \"phone\": \"111-111-1111\",\n  \"status\": \"active\",\n  \"created_at\": 1,\n  \"updated_at\": 1\n}"

\* The registry entry each tool client function stands for.
EntryOf ==
    [f \in create_mcp_tools |->
        CASE f = "tool_get_customer" -> "get_customer"
          [] f = "tool_list_customers" -> "list_customers"
          [] f = "tool_update_customer" -> "update_customer"
          [] f = "tool_create_ticket" -> "create_ticket"
          [] f = "tool_get_customer_history" -> "get_customer_history"]

\* C20: the names GET /tools lists are exactly the keys of the registry, each
\* once, and the parameter names declared for each are exactly those its
\* handler's signature accepts; the tool client functions map one to one onto
\* the registry entries, and the request each sends names its entry and
\* carries parameters the entry accepts, the required ones included.
C20_SameOperationSet ==
    /\ tools = {"get_customer", "list_customers", "update_customer", "create_ticket",
                "get_customer_history"}
    /\ { EntryOf[f] : f \in create_mcp_tools } = tools
    /\ Cardinality(create_mcp_tools) = Cardinality(tools)
    /\ call.tool = "GET /tools" =>
          LET listed == result.tools
          IN  /\ { listed[i].name : i \in DOMAIN listed } = tools
              /\ Len(listed) = Cardinality(tools)
              /\ \A i \in DOMAIN listed :
                    DOMAIN listed[i].parameters
                        = Required(listed[i].name) \cup Optional(listed[i].name)
    /\ (client.fn # "none" /\ client.sent = 1) =>
          /\ client.request.tool = EntryOf[client.fn]
          /\ Required(client.request.tool) \subseteq DOMAIN client.request.params
          /\ DOMAIN client.request.params
                \subseteq Required(client.request.tool) \cup Optional(client.request.tool)

\* C20 witness: GET /tools has answered with five tools after the tool client
\* had sent a get_customer_history request.
C20_Witness ==
    /\ call.tool = "GET /tools"
    /\ Len(result.tools) = 5
    /\ result.tools[5].name = "get_customer_history"
    /\ client.fn = "tool_get_customer_history"
    /\ client.sent = 1

\* The rows the seed step is specified to leave: six customers and seven
\* tickets.
SeedIds == {1, 2, 3, 4, 5, 12345}
SeedFields ==
    [id \in SeedIds |->
        CASE id = 1 -> <<"Alice Premium", "alice@example.com", "111-111-1111", "active">>
          [] id = 2 -> <<"Bob Standard", "bob@example.com", "222-222-2222", "active">>
          [] id = 3 -> <<"Charlie Disabled", "charlie@example.com", "333-333-3333", "disabled">>
          [] id = 4 -> <<"Diana Premium", "diana@example.com", "444-444-4444", "active">>
          [] id = 5 -> <<"Eve Standard", "eve@example.com", "555-555-5555", "active">>
          [] id = 12345 -> <<"Priya Patel (Premium)", "priya@example.com", "555-0999", "active">>]
SeedTicketOwners == <<1, 1, 2, 4, 5, 12345, 12345>>

IsSeedStore(cs, ts) ==
    /\ Cardinality(cs) = 6
    /\ { r.id : r \in cs } = SeedIds
    /\ \A r \in cs :
          <<r.name, r.email, r.phone, r.status>>
              = [i \in 1..4 |-> Text(SeedFields[r.id][i])]
    /\ Len(ts) = 7
    /\ \A i \in 1..7 : ts[i].id = i /\ ts[i].customer_id = SeedTicketOwners[i]

IsPipelinePass(events) ==
    /\ Len(events) = 4
    /\ events[1] = [author |-> "customer_data", kind |-> "start"]
    /\ events[2].author = "customer_data" /\ events[2].kind \in Replies
    /\ events[3] = [author |-> "support", kind |-> "start"]
    /\ events[4].author = "support" /\ events[4].kind \in Replies

AnsweredUpdates(id) ==
    { r \in Requests : /\ requests[r].pc = "done"
                       /\ requests[r].tool = "update_customer"
                       /\ requests[r].params.customer_id = id }

\* The values the answered updates of customer id wrote to field f.
Written(id, f) ==
    { requests[r].params.data[f] :
        r \in { q \in AnsweredUpdates(id) : f \in DOMAIN requests[q].params.data } }

\* No request is in progress.
Quiescent == \A r \in Requests : requests[r].pc \in {"idle", "done"}

\* C23: concurrent update_customer requests on the same customer are all
\* accepted, and once they are answered, under every interleaving, each
\* allow-listed field some of them wrote holds one of the values written to
\* it: both values when two requests wrote different fields (no lost
\* update), one of the two when they wrote the same field.
C23_NoLostUpdate ==
    Quiescent =>
        \A row \in customers :
            /\ \A r \in AnsweredUpdates(row.id) :
                  /\ requests[r].status_code = 200
                  /\ requests[r].ret.success
            /\ \A f \in AllowList :
                  Written(row.id, f) # {} => row[f] \in Written(row.id, f)

\* Two requests on customer 1 were in progress at once, one wrote phone and
\* the other status, the later arrival wrote first, and the row has both.
C23_Witness ==
    /\ Quiescent
    /\ AnsweredUpdates(1) = {1, 2}
    /\ DOMAIN requests[1].params.data = {"phone"}
    /\ DOMAIN requests[2].params.data = {"status"}
    /\ requests[2].now < requests[1].now
    /\ \E row \in customers :
          row.id = 1 /\ row.phone = Text("x") /\ row.status = Text("x")

\* A request is between opening and closing its connection.
InOperation(r) == requests[r].pc \in {"write", "read"}

\* A request's response has been built.
Answered(r) == requests[r].pc \in {"send", "done"}

\* C24: each operation runs to completion without another request's store
\* statements in between: no two requests are inside an operation at once,
\* the row a successful update_customer returns holds exactly the values
\* that call wrote, and the row create_ticket returns is the ticket that
\* call inserted.
C24_RunsToCompletion ==
    /\ Cardinality({ r \in Requests : InOperation(r) }) <= 1
    /\ \A r \in Requests :
          InOperation(r) => running = r
    /\ \A r \in Requests :
          ( /\ Answered(r)
            /\ requests[r].tool = "update_customer"
            /\ requests[r].ret.success )
          => /\ \A f \in DOMAIN requests[r].params.data :
                   requests[r].ret.data[f] = requests[r].params.data[f]
             /\ requests[r].ret.data.id = requests[r].params.customer_id
             /\ requests[r].ret.data.updated_at = requests[r].now
    /\ \A r \in Requests :
          ( /\ Answered(r)
            /\ requests[r].tool = "create_ticket"
            /\ requests[r].ret.success )
          => /\ requests[r].ret.data.id = requests[r].ticket_id
             /\ requests[r].ret.data.customer_id = requests[r].params.customer_id
             /\ requests[r].ret.data.issue = requests[r].params.issue
             /\ requests[r].ret.data.created_at = requests[r].now
             /\ \A q \in Requests \ {r} :
                   requests[q].ticket_id # requests[r].ticket_id

\* The response of request 1 holds the phone it wrote while the store
\* already holds the phone request 2 wrote after it; both arrived before
\* either was handled.
C24_Witness ==
    /\ requests[1].pc = "send"
    /\ requests[1].tool = "update_customer"
    /\ requests[2].tool = "update_customer"
    /\ requests[1].ret.success
    /\ requests[1].ret.data.phone = Text("x")
    /\ requests[2].pc = "done"
    /\ requests[2].ret.success
    /\ requests[2].ret.data.phone = Text("y")
    /\ requests[1].now < requests[2].now
    /\ \E row \in customers : row.id = 1 /\ row.phone = Text("y")

\* C25: update_customer examines the fields before it looks for the
\* customer.  For an id no customer has and a data mapping with no
\* allow-listed key it returns "No valid fields to update", not "Customer
\* <id> not found", without reaching the UPDATE (no reading of the clock);
\* and whenever it reports "Customer <id> not found" it has taken the
\* UPDATE's timestamp and run the UPDATE, which changed no row.
C25_FieldsBeforeLookup ==
    [][ call'.tool = "update_customer" =>
        /\ ( /\ ~Exists(customers, call'.params.customer_id)
             /\ Applied(call'.params.data) = {} )
           => /\ result' = [success |-> FALSE, error |-> "No valid fields to update"]
              /\ clock' = clock
        /\ result' = [success |-> FALSE,
                      error |-> "Customer " \o ToString(call'.params.customer_id)
                                    \o " not found"]
           => /\ Applied(call'.params.data) # {}
              /\ ~Exists(customers, call'.params.customer_id)
              /\ clock' = clock + 1
              /\ customers' = customers
              /\ handles' = handles
      ]_vars

\* update_customer(99999, {"id": ...}): an id no customer has, a mapping
\* whose only key is not allow-listed, answered "No valid fields to update".
C25_Witness ==
    /\ call.tool = "update_customer"
    /\ call.params.customer_id = 99999
    /\ ~Exists(customers, 99999)
    /\ DOMAIN call.params.data = {"id"}
    /\ result = [success |-> FALSE, error |-> "No valid fields to update"]

====
